---- MODULE Spec2Model ----
(***************************************************************************)
(* Model of datastore_stressor.py: the command-line driver (main), the     *)
(* push client, the pull client, the response parser and the verification  *)
(* loop.  Python values are modelled by tagged records, Python exceptions  *)
(* by the name of the exception class that is raised.                      *)
(***************************************************************************)
EXTENDS Integers, Sequences, FiniteSets, TLC

VARIABLES
    entry,        \* which callable the run enters: the script or push()
    pc,           \* position of the single thread of control
    tries,        \* main's parameter
    attempt,      \* main's loop variable
    genCalls,     \* number of create_data_file calls made so far
    created,      \* result of create_data_file: "unset", "True", "False"
    diskData,     \* content of DATA_FILE on disk, "absent" when there is none
    filepath,     \* push's parameter
    data,         \* push's parameter
    file_handle,  \* push's local: "None", "open", "closed"
    posts,        \* number of HTTP POSTs issued by the current push call
    pushHttp,     \* what requests.post did in push (response or exception)
    pushOutcome,  \* how push ends: [raised, ret]
    response,     \* main's local: what pull returned
    uris,         \* main's local: what parse_response returned
    idx,          \* position of the for-loop over uris
    built_data,   \* main's local: bytes read from DATA_FILE
    fetched,      \* the URIs fetched so far and the bytes each delivered
    outcomes,     \* the PASS/FAIL lines logged in the current attempt
    exc,          \* uncaught exception: [name, where]
    mainReturn,   \* value returned by main: "unset", "None", "-1"
    exitStatus,   \* exit status of the process: -2 while running
    netUsed,      \* some push, pull or URI fetch has been issued in this run
    slept         \* time.sleep has been called in this run

vars == <<entry, pc, tries, attempt, genCalls, created, diskData, filepath,
          data, file_handle, posts, pushHttp, pushOutcome, response, uris,
          idx, built_data, fetched, outcomes, exc, mainReturn, exitStatus,
          netUsed, slept>>

(***************************************************************************)
(* Bounds                                                                  *)
(***************************************************************************)
MaxTries == 2
MaxElems == 3

(***************************************************************************)
(* Python / JSON values.  Strings are sequences of characters.             *)
(***************************************************************************)
JNull == [t |-> "null", b |-> FALSE, n |-> 0, s |-> <<>>, a |-> <<>>, o |-> <<>>]
JBool(x) == [JNull EXCEPT !.t = "bool", !.b = x]
JNum(x) == [JNull EXCEPT !.t = "num", !.n = x]
JStr(x) == [JNull EXCEPT !.t = "str", !.s = x]
JArr(x) == [JNull EXCEPT !.t = "arr", !.a = x]
JObj(x) == [JNull EXCEPT !.t = "obj", !.o = x]
JBytes(x) == [JNull EXCEPT !.t = "bytes", !.s = x]

datafileuri == <<"d", "a", "t", "a", "F", "i", "l", "e", "U", "r", "i">>
success == <<"s", "u", "c", "c", "e", "s", "s">>

\* bool(v)
Truthy(v) ==
    CASE v.t = "null" -> FALSE
      [] v.t = "bool" -> v.b
      [] v.t = "num" -> v.n # 0
      [] v.t = "str" -> Len(v.s) > 0
      [] v.t = "bytes" -> Len(v.s) > 0
      [] v.t = "arr" -> Len(v.a) > 0
      [] v.t = "obj" -> Len(v.o) > 0

\* k in s, for two strings
Substring(k, s) ==
    \E i \in 0..(Len(s) - Len(k)) : SubSeq(s, i + 1, i + Len(k)) = k

\* whether "key in v" is defined; it raises TypeError otherwise
SupportsIn(v) == v.t \in {"str", "arr", "obj"}

\* key in v, for a string key
Contains(v, key) ==
    CASE v.t = "obj" -> \E i \in 1..Len(v.o) : v.o[i][1] = key
      [] v.t = "arr" -> \E i \in 1..Len(v.a) : v.a[i] = JStr(key)
      [] v.t = "str" -> Substring(key, v.s)
      [] OTHER -> FALSE

\* v[key], for a string key
GetItem(v, key) ==
    IF v.t = "obj"
    THEN IF \E i \in 1..Len(v.o) : v.o[i][1] = key
         THEN [raised |-> "none",
               val |-> v.o[CHOOSE i \in 1..Len(v.o) : v.o[i][1] = key][2]]
         ELSE [raised |-> "KeyError", val |-> JNull]
    ELSE [raised |-> "TypeError", val |-> JNull]

\* whether iter(v) is defined; it raises TypeError otherwise
Iterable(v) == v.t \in {"str", "arr", "obj"}

\* the elements "for element in v" visits, in order
Iterate(v) ==
    CASE v.t = "arr" -> v.a
      [] v.t = "obj" -> [i \in 1..Len(v.o) |-> JStr(v.o[i][1])]
      [] v.t = "str" -> [i \in 1..Len(v.s) |-> JStr(<<v.s[i]>>)]
      [] OTHER -> <<>>

(***************************************************************************)
(* HTTP results                                                            *)
(***************************************************************************)
\* a requests.Response: ok is response.ok, parses tells whether
\* response.json() succeeds, json is what it returns
Response(ok, parses, json) ==
    [kind |-> "Response", ok |-> ok, parses |-> parses, json |-> json]
\* the '' that pull returns after a transport failure
Sentinel == [kind |-> "str", ok |-> FALSE, parses |-> FALSE, json |-> JNull]
RequestException ==
    [kind |-> "RequestException", ok |-> FALSE, parses |-> FALSE, json |-> JNull]
NoHttp == [kind |-> "unset", ok |-> FALSE, parses |-> FALSE, json |-> JNull]

(***************************************************************************)
(* Inputs: what the environment (datastore, file system) can deliver       *)
(***************************************************************************)
DATA_FILE == <<".", "/", "d", "a", "t", "a", ".", "t", "x", "t">>

Blobs == {"blobA", "blobB"}

\* elements of a pulled JSON array
Elems ==
    { JObj(<< <<datafileuri, JStr(<<"a">>)>> >>),
      JObj(<< <<datafileuri, JStr(<<"b">>)>> >>),
      JObj(<< <<(<<"f", "o", "o">>), JStr(<<"b", "a", "r">>)>> >>),
      JObj(<<>>),
      JNull,
      JNum(5),
      JStr(datafileuri),
      JArr(<<JStr(datafileuri)>>) }

ArrayBodies == UNION { {JArr(x) : x \in [1..k -> Elems]} : k \in 0..MaxElems }

SimpleBodies ==
    { JNull, JBool(TRUE), JNum(5), JStr(<<"a">>), JStr(datafileuri),
      JObj(<<>>),
      JObj(<< <<success, JBool(TRUE)>> >>),
      JObj(<< <<success, JBool(FALSE)>> >>),
      JObj(<< <<success, JNum(1)>> >>),
      JObj(<< <<success, JStr(<<"n", "o">>)>> >>),
      JObj(<< <<success, JNull>> >>),
      JObj(<< <<(<<"o", "k">>), JBool(TRUE)>> >>),
      JObj(<< <<datafileuri, JStr(<<"a">>)>> >>) }

Responses(bodies) ==
    { Response(ok, TRUE, j) : ok \in BOOLEAN, j \in bodies }
        \cup { Response(ok, FALSE, JNull) : ok \in BOOLEAN }

PushResponses == Responses(SimpleBodies \cup {JArr(<<>>)})
PullResponses == Responses(SimpleBodies \cup ArrayBodies)

FilepathArgs == { JNull, JStr(<<>>), JStr(DATA_FILE) }
DataArgs == { JNull, JStr(<<>>), JStr(<<"x", "y">>), JBytes(<<>>), JBytes(<<"x", "y">>) }

(***************************************************************************)
(* parse_response                                                          *)
(***************************************************************************)
RECURSIVE CollectUrisPrepend(_, _)
\* CollectUris with the found value put in front of the list
CollectUrisPrepend(elements, acc) ==
    IF elements = <<>>
    THEN [raised |-> "none", uris |-> acc]
    ELSE LET element == Head(elements) IN
         IF ~Truthy(element)
         THEN CollectUrisPrepend(Tail(elements), acc)
         ELSE IF ~SupportsIn(element)
         THEN [raised |-> "TypeError", uris |-> <<>>]
         ELSE IF ~Contains(element, datafileuri)
         THEN CollectUrisPrepend(Tail(elements), acc)
         ELSE LET got == GetItem(element, datafileuri) IN
              IF got.raised # "none"
              THEN [raised |-> got.raised, uris |-> <<>>]
              ELSE CollectUrisPrepend(Tail(elements), <<got.val>> \o acc)

RECURSIVE CollectUris(_, _)
\* the for-loop of parse_response over the elements that are left
CollectUris(elements, acc) ==
    IF elements = <<>>
    THEN [raised |-> "none", uris |-> acc]
    ELSE LET element == Head(elements) IN
         IF ~Truthy(element)
         THEN CollectUris(Tail(elements), acc)
         ELSE IF ~SupportsIn(element)
         THEN [raised |-> "TypeError", uris |-> <<>>]
         ELSE IF ~Contains(element, datafileuri)
         THEN CollectUris(Tail(elements), acc)
         ELSE LET got == GetItem(element, datafileuri) IN
              IF got.raised # "none"
              THEN [raised |-> got.raised, uris |-> <<>>]
              ELSE CollectUris(Tail(elements), Append(acc, got.val))

parse_response(r) ==
    IF r.kind # "Response"
    THEN [raised |-> "AttributeError", uris |-> <<>>]
    ELSE LET json_response ==
                 IF r.ok /\ r.parses THEN r.json ELSE JObj(<<>>)
         IN  IF ~Iterable(json_response)
             THEN [raised |-> "TypeError", uris |-> <<>>]
             ELSE CollectUris(Iterate(json_response), <<>>)

(***************************************************************************)
(* push: the decisions it takes                                            *)
(***************************************************************************)
\* the exception raised before the try block, "none" if there is none
PushPrologue(fp, d) ==
    IF fp = JNull /\ d = JNull THEN "ValueError"
    ELSE IF Truthy(d) /\ d.t # "bytes" THEN "TypeError"
    ELSE "none"

\* PushHandleResponse with the test of the success field inverted
PushHandleResponseInverted(http) ==
    IF http.kind = "RequestException"
    THEN [raised |-> "none", ret |-> "False"]
    ELSE IF http.ok
    THEN IF ~http.parses
         THEN [raised |-> "none", ret |-> "False"]
         ELSE LET got == GetItem(http.json, success) IN
              IF got.raised # "none"
              THEN [raised |-> got.raised, ret |-> "unset"]
              ELSE IF Truthy(got.val)
              THEN [raised |-> "none", ret |-> "False"]
              ELSE [raised |-> "none", ret |-> "True"]
    ELSE [raised |-> "none", ret |-> "False"]

\* the outcome of the try block once requests.post has acted
PushHandleResponse(http) ==
    IF http.kind = "RequestException"
    THEN [raised |-> "none", ret |-> "False"]
    ELSE IF http.ok
    THEN IF ~http.parses
         THEN [raised |-> "none", ret |-> "False"]
         ELSE LET got == GetItem(http.json, success) IN
              IF got.raised # "none"
              THEN [raised |-> got.raised, ret |-> "unset"]
              ELSE IF ~Truthy(got.val)
              THEN [raised |-> "none", ret |-> "False"]
              ELSE [raised |-> "none", ret |-> "True"]
    ELSE [raised |-> "none", ret |-> "False"]

\* PushFinallyHandle closing the handle only when no exception is leaving
PushFinallyHandleNoExc(h, outcome) ==
    IF h = "open" /\ outcome.raised = "none" THEN "closed" ELSE h

\* the finally clause: the handle after it has run
PushFinallyHandle(h, outcome) ==
    IF h = "open" THEN "closed" ELSE h

(***************************************************************************)
(* main: the decisions it takes                                            *)
(***************************************************************************)
\* AfterCreate ignoring the result of create_data_file
AfterCreateIgnored(ok) == "loop"

\* where main continues once create_data_file has returned
AfterCreate(ok) == IF ok THEN "loop" ELSE "main_returned"

\* VerifyLine with the comparison inverted
VerifyLineInverted(runtime_data, built) ==
    IF runtime_data # built THEN "PASS" ELSE "FAIL"

\* the line logged for one fetched URI
VerifyLine(runtime_data, built) ==
    IF runtime_data = built THEN "PASS" ELSE "FAIL"

\* the exit status of the script
ExitStatus(uncaught, ret) == IF uncaught # "none" THEN 1 ELSE 0

NoExc == [name |-> "none", where |-> "none"]
NoOutcome == [raised |-> "none", ret |-> "unset"]

(***************************************************************************)
(* Initial states: the script is started with --tries, or push is called   *)
(* directly with arguments of the caller's choice                          *)
(***************************************************************************)
Init ==
    /\ entry \in {"__main__", "push"}
    /\ pc = IF entry = "__main__" THEN "main" ELSE "push"
    /\ tries \in IF entry = "__main__" THEN 0..MaxTries ELSE {0}
    /\ attempt = 0
    /\ genCalls = 0
    /\ created = "unset"
    /\ diskData \in IF entry = "push" THEN {"absent", "blobA"} ELSE {"absent"}
    /\ filepath \in IF entry = "push" THEN FilepathArgs ELSE {JStr(<<>>)}
    /\ data \in IF entry = "push" THEN DataArgs ELSE {JStr(<<>>)}
    /\ file_handle = "None"
    /\ posts = 0
    /\ pushHttp = NoHttp
    /\ pushOutcome = NoOutcome
    /\ response = NoHttp
    /\ uris = <<>>
    /\ idx = 0
    /\ built_data = "unset"
    /\ fetched = <<>>
    /\ outcomes = <<>>
    /\ exc = NoExc
    /\ mainReturn = "unset"
    /\ exitStatus = -2
    /\ netUsed = FALSE
    /\ slept = FALSE

pushVars == <<filepath, data, file_handle, posts, pushHttp, pushOutcome>>
attemptVars == <<response, uris, idx, built_data, fetched, outcomes>>
runVars == <<entry, tries, genCalls, created, diskData, mainReturn, exitStatus>>

(***************************************************************************)
(* main                                                                    *)
(***************************************************************************)
\* main, lines 37-39, with create_data_file: dmesg may fail, the write may
\* fail, or the compressed output is written to DATA_FILE
create_data_file ==
    /\ pc = "main"
    /\ genCalls' = genCalls + 1
    /\ \/ /\ \E blob \in Blobs : diskData' = blob
          /\ created' = "True"
          /\ pc' = AfterCreate(TRUE)
          /\ UNCHANGED mainReturn
       \/ /\ created' = "False"
          /\ pc' = AfterCreate(FALSE)
          /\ mainReturn' = IF AfterCreate(FALSE) = "main_returned"
                           THEN "-1" ELSE mainReturn
          /\ UNCHANGED diskData
    /\ UNCHANGED <<entry, tries, attempt, exitStatus, exc, netUsed, slept>>
    /\ UNCHANGED pushVars
    /\ UNCHANGED attemptVars

\* the for statement of line 41 and lines 42-47 up to the call of push; the
\* locals of the previous iteration are rebound before they are read again
LoopHead ==
    /\ pc = "loop"
    /\ IF attempt < tries
       THEN /\ attempt' = attempt + 1
            /\ pc' = "push"
            /\ filepath' = JStr(DATA_FILE)
            /\ data' = JStr(<<>>)
            /\ UNCHANGED mainReturn
       ELSE /\ pc' = "main_returned"
            /\ mainReturn' = "None"
            /\ UNCHANGED <<attempt, filepath, data>>
    /\ response' = NoHttp
    /\ uris' = <<>>
    /\ idx' = 0
    /\ built_data' = "unset"
    /\ fetched' = <<>>
    /\ outcomes' = <<>>
    /\ UNCHANGED <<entry, tries, genCalls, created, diskData, exitStatus,
                   file_handle, posts, pushHttp, pushOutcome, exc, netUsed,
                   slept>>

(***************************************************************************)
(* push                                                                    *)
(***************************************************************************)
\* lines 167-182: the argument check and the construction of the item
PushEnter ==
    /\ pc = "push"
    /\ LET raised == PushPrologue(filepath, data) IN
       IF raised # "none"
       THEN /\ pushOutcome' = [raised |-> raised, ret |-> "unset"]
            /\ pc' = "push_end"
       ELSE /\ pc' = "push_open"
            /\ UNCHANGED pushOutcome
    /\ UNCHANGED <<filepath, data, file_handle, posts, pushHttp, attempt, exc,
                   netUsed, slept>>
    /\ UNCHANGED runVars
    /\ UNCHANGED attemptVars

\* lines 184-188: the file is opened when a path was given; open raises
\* when there is no file at the path
PushOpen ==
    /\ pc = "push_open"
    /\ IF Truthy(filepath)
       THEN IF filepath = JStr(DATA_FILE) /\ diskData # "absent"
            THEN /\ file_handle' = "open"
                 /\ pc' = "push_post"
                 /\ UNCHANGED pushOutcome
            ELSE /\ pushOutcome' = [raised |-> "OSError", ret |-> "unset"]
                 /\ pc' = "push_finally"
                 /\ UNCHANGED file_handle
       ELSE /\ pc' = "push_post"
            /\ UNCHANGED <<file_handle, pushOutcome>>
    /\ UNCHANGED <<filepath, data, posts, pushHttp, attempt, exc, netUsed,
                   slept>>
    /\ UNCHANGED runVars
    /\ UNCHANGED attemptVars

\* lines 191-216: the POST, and what push makes of its result
PushPost ==
    /\ pc = "push_post"
    /\ posts' = posts + 1
    /\ netUsed' = TRUE
    /\ \E http \in PushResponses \cup {RequestException} :
          /\ pushHttp' = http
          /\ pushOutcome' = PushHandleResponse(http)
    /\ pc' = "push_finally"
    /\ UNCHANGED <<filepath, data, file_handle, attempt, exc, slept>>
    /\ UNCHANGED runVars
    /\ UNCHANGED attemptVars

\* lines 218-221: the finally clause
PushFinally ==
    /\ pc = "push_finally"
    /\ file_handle' = PushFinallyHandle(file_handle, pushOutcome)
    /\ pc' = "push_end"
    /\ UNCHANGED <<filepath, data, posts, pushHttp, pushOutcome, attempt, exc,
                   netUsed, slept>>
    /\ UNCHANGED runVars
    /\ UNCHANGED attemptVars

\* line 47: push ends in main, which drops the value it returned; an
\* exception that left push leaves main as well
PushReturn ==
    /\ pc = "push_end"
    /\ entry = "__main__"
    /\ IF pushOutcome.raised # "none"
       THEN /\ exc' = [name |-> pushOutcome.raised, where |-> "push"]
            /\ pc' = "uncaught"
            /\ UNCHANGED pushVars
       ELSE /\ pc' = "pull"
            /\ file_handle' = "None"
            /\ posts' = 0
            /\ pushHttp' = NoHttp
            /\ pushOutcome' = NoOutcome
            /\ UNCHANGED <<filepath, data, exc>>
    /\ UNCHANGED <<attempt, netUsed, slept>>
    /\ UNCHANGED runVars
    /\ UNCHANGED attemptVars

(***************************************************************************)
(* pull, parse_response and the verification loop                          *)
(***************************************************************************)
\* line 48 and pull: the POST raises and pull returns '', or pull returns
\* the response
pull ==
    /\ pc = "pull"
    /\ netUsed' = TRUE
    /\ response' \in PullResponses \cup {Sentinel}
    /\ pc' = "parse"
    /\ UNCHANGED <<uris, idx, built_data, fetched, outcomes, attempt, exc,
                   slept>>
    /\ UNCHANGED runVars
    /\ UNCHANGED pushVars

\* line 50
Parse ==
    /\ pc = "parse"
    /\ LET r == parse_response(response) IN
       IF r.raised # "none"
       THEN /\ exc' = [name |-> r.raised, where |-> "parse_response"]
            /\ pc' = "uncaught"
            /\ UNCHANGED uris
       ELSE /\ uris' = r.uris
            /\ pc' = "read"
            /\ UNCHANGED exc
    /\ UNCHANGED <<response, idx, built_data, fetched, outcomes, attempt,
                   netUsed, slept>>
    /\ UNCHANGED runVars
    /\ UNCHANGED pushVars

\* lines 52-53
ReadDataFile ==
    /\ pc = "read"
    /\ built_data' = diskData
    /\ idx' = 1
    /\ pc' = "verify"
    /\ UNCHANGED <<response, uris, fetched, outcomes, attempt, exc, netUsed,
                   slept>>
    /\ UNCHANGED runVars
    /\ UNCHANGED pushVars

\* lines 55-62, one iteration: requests.get raises, or delivers bytes that
\* are compared with the bytes of the file
Verify ==
    /\ pc = "verify"
    /\ idx <= Len(uris)
    /\ netUsed' = TRUE
    /\ \/ /\ exc' = [name |-> "RequestException", where |-> "get"]
          /\ pc' = "uncaught"
          /\ UNCHANGED <<idx, fetched, outcomes>>
       \/ /\ uris[idx].t = "str"
          /\ \E runtime_data \in Blobs :
                /\ fetched' = Append(fetched, [uri |-> uris[idx],
                                                content |-> runtime_data])
                /\ outcomes' = Append(outcomes,
                                      VerifyLine(runtime_data, built_data))
          /\ idx' = idx + 1
          /\ UNCHANGED <<pc, exc>>
    /\ UNCHANGED <<response, uris, built_data, attempt, slept>>
    /\ UNCHANGED runVars
    /\ UNCHANGED pushVars

\* lines 64-67: the attempt ends; main sleeps unless it was the last one
AttemptEnd ==
    /\ pc = "verify"
    /\ idx > Len(uris)
    /\ pc' = IF attempt < tries THEN "sleep" ELSE "loop"
    /\ UNCHANGED <<attempt, exc, netUsed, slept>>
    /\ UNCHANGED runVars
    /\ UNCHANGED pushVars
    /\ UNCHANGED attemptVars

\* line 67
Sleep ==
    /\ pc = "sleep"
    /\ slept' = TRUE
    /\ pc' = "loop"
    /\ UNCHANGED <<attempt, exc, netUsed>>
    /\ UNCHANGED runVars
    /\ UNCHANGED pushVars
    /\ UNCHANGED attemptVars

\* line 234: the script ends once main has returned or raised
ProcessExit ==
    /\ pc \in {"main_returned", "uncaught"}
    /\ exitStatus' = ExitStatus(exc.name, mainReturn)
    /\ pc' = "exited"
    /\ UNCHANGED <<entry, tries, genCalls, created, diskData, mainReturn,
                   attempt, exc, netUsed, slept>>
    /\ UNCHANGED pushVars
    /\ UNCHANGED attemptVars

Next ==
    \/ create_data_file
    \/ LoopHead
    \/ PushEnter
    \/ PushOpen
    \/ PushPost
    \/ PushFinally
    \/ PushReturn
    \/ pull
    \/ Parse
    \/ ReadDataFile
    \/ Verify
    \/ AttemptEnd
    \/ Sleep
    \/ ProcessExit

Spec == Init /\ [][Next]_vars

(***************************************************************************)
(* Properties                                                              *)
(***************************************************************************)
InPush == pc \in {"push", "push_open", "push_post", "push_finally"}
PushEnded == pc = "push_end" \/ (pc \in {"uncaught", "exited"} /\ exc.where = "push")
Returned(v) == [raised |-> "none", ret |-> v]

\* a body that lacks a boolean success field
LacksBooleanSuccess(j) ==
    \/ j.t # "obj"
    \/ ~\E i \in 1..Len(j.o) : j.o[i][1] = success /\ j.o[i][2].t = "bool"

\* the body is an object whose success field is the boolean x
SuccessIs(http, x) ==
    /\ http.parses
    /\ http.json.t = "obj"
    /\ \E i \in 1..Len(http.json.o) : http.json.o[i] = <<success, JBool(x)>>

\* C1: whenever push has handled a 2xx response whose body does not parse
\* as JSON or lacks a boolean success field, push returns false and raises
\* nothing.
C1_MalformedBodyReturnsFalse ==
    (/\ pc \in {"push_finally", "push_end"}
     /\ pushHttp.kind = "Response"
     /\ pushHttp.ok
     /\ (~pushHttp.parses \/ LacksBooleanSuccess(pushHttp.json)))
        => pushOutcome = Returned("False")

\* C2: a push call given neither a file path nor data (None or empty) never
\* issues a POST and ends with the configuration error ValueError.
C2_NeitherSuppliedFailsFast ==
    (~Truthy(filepath) /\ ~Truthy(data) /\ (InPush \/ PushEnded))
        => /\ posts = 0
           /\ PushEnded => pushOutcome.raised = "ValueError"

\* C3: parse_response raises nothing, whatever pull handed to it.
C3_ParseNeverRaises ==
    pc = "parse" => parse_response(response).raised = "none"

\* C4: once the data file was created, a run of main that has ended has
\* started all its attempts and has returned normally.
C4_AllAttemptsRun ==
    (entry = "__main__" /\ created = "True" /\ pc = "exited")
        => (exc = NoExc /\ attempt = tries /\ mainReturn = "None")

\* C5: the exit status of the script is non-zero when create_data_file
\* failed, and 0 when it succeeded and all attempts ran.
C5_ExitStatus ==
    (entry = "__main__" /\ pc = "exited")
        => /\ created = "False" => exitStatus # 0
           /\ (created = "True" /\ exc = NoExc) => exitStatus = 0

\* C6: the file handle push opened is open only while push is executing;
\* once push has returned or raised, the handle is closed.
C6_HandleReleased == ~InPush => file_handle # "open"

C6_Witness ==
    /\ pc = "push_end"
    /\ file_handle = "closed"
    /\ pushOutcome.raised = "KeyError"

\* the element is a non-empty object that has the dataFileUri key
HasUri(e) == Len(e.o) > 0 /\ \E i \in 1..Len(e.o) : e.o[i][1] = datafileuri
UriOf(e) == LET p == CHOOSE q \in {e.o[i] : i \in 1..Len(e.o)} : q[1] = datafileuri
            IN p[2]
\* the dataFileUri values of the elements that have one, in array order
ExpectedUris(a) ==
    LET kept == SelectSeq(a, HasUri) IN [i \in 1..Len(kept) |-> UriOf(kept[i])]
IsArrayOfObjects(j) == j.t = "arr" /\ \A i \in 1..Len(j.a) : j.a[i].t = "obj"

C10_GeneratorOnceAndFirst ==
    entry = "__main__"
        => /\ genCalls <= 1
           /\ pc # "main" => genCalls = 1
           /\ (netUsed \/ slept \/ attempt > 0) => (genCalls = 1 /\ created = "True")
           /\ created = "False" => (~netUsed /\ ~slept /\ attempt = 0)

C10_Witness ==
    /\ pc = "exited"
    /\ genCalls = 1
    /\ netUsed
    /\ slept
    /\ attempt = 2

====
